---- MODULE Spec2Model ----
(***************************************************************************)
(* dirsum: md5 manifests for directory trees (new / update / verify).      *)
(* Go strings are modelled as sequences of one-character strings, so that  *)
(* the manifest codec, the path arithmetic and the sort comparator are     *)
(* computed character by character as the program computes them.           *)
(***************************************************************************)
EXTENDS Integers, Sequences, FiniteSets, TLC

\* ------------------------------------------------------------------
\* Characters and strings

\* The characters used by the model, in ASCII order.
Alphabet ==
    << "\n", "\r", " ", "#", "*", ".", "/",
       "0", "1", "2", "3", "4", "5", "6", "7", "8", "9",
       "A", "B", "C", "D", "E", "F",
       "a", "b", "c", "d", "e", "f", "m", "s", "w", "x", "y" >>

Chars == { Alphabet[i] : i \in 1..Len(Alphabet) }

\* Position of a character in ASCII order (Go compares strings bytewise).
Ord == [ c \in Chars |-> CHOOSE i \in 1..Len(Alphabet) : Alphabet[i] = c ]

LowerOf == [ c \in Chars |->
    CASE c = "A" -> "a" [] c = "B" -> "b" [] c = "C" -> "c"
      [] c = "D" -> "d" [] c = "E" -> "e" [] c = "F" -> "f"
      [] OTHER -> c ]

\* A value bound once to the name the expression that follows knows it by.
With(v, F(_)) == F(v)

\* strings.ToLower
ToLower(s) == [ i \in 1..Len(s) |-> LowerOf[s[i]] ]

\* Go's < on strings: bytewise lexicographic order.
StrLess(a, b) ==
    \E i \in 1..(Len(b)) :
        /\ \A j \in 1..(i-1) : j <= Len(a) /\ a[j] = b[j]
        /\ \/ i = Len(a) + 1
           \/ i <= Len(a) /\ Ord[a[i]] < Ord[b[i]]

\* strings.Index, 0 when sep does not occur.
Index(s, sep) ==
    LET hits == { i \in 1..(Len(s) - Len(sep) + 1) : \A k \in 1..Len(sep) : s[i + k - 1] = sep[k] }
    IN  IF hits = {} THEN 0 ELSE CHOOSE i \in hits : \A j \in hits : i <= j

\* strings.Split with a non-empty separator.
RECURSIVE Split(_, _)
Split(s, sep) ==
    LET i == Index(s, sep)
    IN  IF i = 0 THEN << s >>
        ELSE << SubSeq(s, 1, i - 1) >> \o Split(SubSeq(s, i + Len(sep), Len(s)), sep)

\* strings.Join
RECURSIVE JoinWith(_, _)
JoinWith(parts, sep) ==
    IF parts = << >> THEN << >>
    ELSE IF Len(parts) = 1 THEN parts[1]
    ELSE parts[1] \o sep \o JoinWith(Tail(parts), sep)

\* strings.Replace(s, old, new, -1)
Replace(s, old, new) == JoinWith(Split(s, old), new)

\* strings.HasSuffix
HasSuffix(s, suffix) ==
    /\ Len(suffix) <= Len(s)
    /\ SubSeq(s, Len(s) - Len(suffix) + 1, Len(s)) = suffix

\* ------------------------------------------------------------------
\* path/filepath (Unix separator)

Sep == << "/" >>
Dot == << "." >>
DotDot == << ".", "." >>

\* The process working directory.
Cwd == << "/", "w" >>

IsAbs(p) == Len(p) > 0 /\ p[1] = "/"

\* The non-empty, non-"." elements of a path.
Elems(p) == SelectSeq(Split(p, Sep), LAMBDA e : e # << >> /\ e # Dot)

RECURSIVE Resolve(_, _, _)
Resolve(out, rest, rooted) ==
    IF rest = << >> THEN out
    ELSE LET e == Head(rest)
         IN  IF e = DotDot
             THEN IF Len(out) > 0 /\ out[Len(out)] # DotDot
                  THEN Resolve(SubSeq(out, 1, Len(out) - 1), Tail(rest), rooted)
                  ELSE IF rooted THEN Resolve(out, Tail(rest), rooted)
                  ELSE Resolve(Append(out, e), Tail(rest), rooted)
             ELSE Resolve(Append(out, e), Tail(rest), rooted)

\* filepath.Clean
Clean(p) ==
    With(JoinWith(Resolve(<< >>, Elems(p), IsAbs(p)), Sep), LAMBDA body :
        IF IsAbs(p) THEN Sep \o body
        ELSE IF body = << >> THEN Dot ELSE body)

\* filepath.Join of two elements: empty elements are ignored.
Join(a, b) ==
    IF a = << >> /\ b = << >> THEN << >>
    ELSE Clean(IF a = << >> THEN b ELSE IF b = << >> THEN a ELSE a \o Sep \o b)

LastSep(p) ==
    LET hits == { i \in 1..Len(p) : p[i] = "/" }
    IN  IF hits = {} THEN 0 ELSE CHOOSE i \in hits : \A j \in hits : j <= i

\* filepath.Dir
Dir(p) == Clean(SubSeq(p, 1, LastSep(p)))

RECURSIVE StripTrailingSep(_)
StripTrailingSep(p) ==
    IF Len(p) > 0 /\ p[Len(p)] = "/" THEN StripTrailingSep(SubSeq(p, 1, Len(p) - 1)) ELSE p

\* filepath.Base
Base(p) ==
    IF p = << >> THEN Dot
    ELSE With(StripTrailingSep(p), LAMBDA q :
            IF q = << >> THEN Sep ELSE SubSeq(q, LastSep(q) + 1, Len(q)))

\* filepath.Abs
Abs(p) == IF IsAbs(p) THEN Clean(p) ELSE Join(Cwd, p)

\* Length of the common prefix of two element lists.
RECURSIVE CommonLen(_, _)
CommonLen(a, b) ==
    IF a # << >> /\ b # << >> /\ Head(a) = Head(b)
    THEN 1 + CommonLen(Tail(a), Tail(b)) ELSE 0

\* filepath.Rel: [ok |-> FALSE] when targ cannot be made relative to base.
Rel(basepath, targpath) ==
    With(Clean(basepath), LAMBDA base :
    With(Clean(targpath), LAMBDA targ :
    With(Elems(base), LAMBDA be :
    With(Elems(targ), LAMBDA te :
    With(CommonLen(be, te), LAMBDA k :
        IF targ = base THEN [ok |-> TRUE, path |-> Dot]
        ELSE IF IsAbs(base) # IsAbs(targ) THEN [ok |-> FALSE, path |-> << >>]
        ELSE IF k < Len(be) /\ be[k + 1] = DotDot THEN [ok |-> FALSE, path |-> << >>]
        ELSE [ok |-> TRUE,
              path |-> JoinWith([ i \in 1..(Len(be) - k) |-> DotDot ]
                                \o SubSeq(te, k + 1, Len(te)), Sep)])))))

\* ------------------------------------------------------------------
\* The file system: regular files by absolute path

\* Width of a hexadecimal md5 digest, as the manifest pattern requires it.
HashLen == 32

HexLower == << "0", "1", "2", "3", "4", "5", "6", "7", "8", "9", "a", "b", "c", "d", "e", "f" >>
HexChars == { "0", "1", "2", "3", "4", "5", "6", "7", "8", "9",
              "a", "b", "c", "d", "e", "f", "A", "B", "C", "D", "E", "F" }

AbsentFile == [exists |-> FALSE, readable |-> FALSE, data |-> << >>]
FileWith(data) == [exists |-> TRUE, readable |-> TRUE, data |-> data]
\* A file that exists but cannot be opened for reading.
LockedFile == [exists |-> TRUE, readable |-> FALSE, data |-> << >>]

\* os.Open / ioutil.ReadFile resolve a relative path against the working directory.
Lookup(d, p) == With(Abs(p), LAMBDA a : IF a \in DOMAIN d THEN d[a] ELSE AbsentFile)

RECURSIVE SumOrd(_)
SumOrd(data) == IF data = << >> THEN 0 ELSE Ord[Head(data)] + SumOrd(Tail(data))

\* The digest of a byte stream: 32 lowercase hexadecimal characters that depend
\* on the content only (crypto/md5 stands outside the program).
Md5Sum(data) ==
    LET n == SumOrd(data) + Len(data)
    IN  [ i \in 1..HashLen |-> HexLower[((n + (i - 1) * (n % 3)) % 16) + 1] ]

\* generateMd5
generateMd5(path, d) ==
    With(Lookup(d, path), LAMBDA f :
        IF ~f.exists \/ ~f.readable
        THEN [err |-> TRUE, hash |-> << >>]
        ELSE [err |-> FALSE, hash |-> Md5Sum(f.data)])

\* ------------------------------------------------------------------
\* Checksums and the manifest codec

\* Verify with the error of the hasher dropped: an entry that cannot be read
\* passes as valid.
VerifyDroppingError(c, d) ==
    With(generateMd5(c.Path, d), LAMBDA h :
        IF h.err THEN [valid |-> TRUE, err |-> TRUE]
        ELSE IF c.Hash = h.hash THEN [valid |-> TRUE, err |-> FALSE]
        ELSE [valid |-> FALSE, err |-> FALSE])

\* Checksum.Verify: (isValid, err)
Verify(c, d) ==
    With(generateMd5(c.Path, d), LAMBDA h :
        IF h.err THEN [valid |-> FALSE, err |-> TRUE]
        ELSE IF c.Hash = h.hash THEN [valid |-> TRUE, err |-> FALSE]
        ELSE [valid |-> FALSE, err |-> FALSE])

\* Checksums.Less on two entries
Less(a, b) ==
    With(ToLower(Dir(a.Path)), LAMBDA aDir :
    With(ToLower(Dir(b.Path)), LAMBDA bDir :
        IF aDir = bDir
        THEN StrLess(ToLower(a.Path), ToLower(b.Path))
        ELSE StrLess(aDir, bDir)))

\* One pass of the inner loop of insertion sort: sink element j while it is
\* Less than its left neighbour.
RECURSIVE Sink(_, _)
Sink(s, j) ==
    IF j > 1 /\ Less(s[j], s[j - 1])
    THEN Sink([s EXCEPT ![j] = s[j - 1], ![j - 1] = s[j]], j - 1)
    ELSE s

RECURSIVE InsertionSort(_, _)
InsertionSort(s, i) == IF i > Len(s) THEN s ELSE InsertionSort(Sink(s, i), i + 1)

\* sort.Sort(sums): the standard library sorts slices shorter than 12 by
\* insertion, through Len, Less and Swap.
SortSums(sums) == InsertionSort(sums, 2)

\* The manifest pattern ^[0-9a-fA-F]{32} \*.*$ on one line.
MatchLine(line) ==
    /\ Len(line) >= HashLen + 2
    /\ \A i \in 1..HashLen : line[i] \in HexChars
    /\ line[HashLen + 1] = " "
    /\ line[HashLen + 2] = "*"

\* The entry of one valid line, its path resolved against the manifest's directory.
ParseLine(line, dir) ==
    With(Split(line, << " ", "*" >>), LAMBDA split :
        [Hash |-> split[1],
         Path |-> IF IsAbs(split[2]) THEN split[2] ELSE Join(dir, split[2])])

\* The loop over the lines of a manifest, shared by readFile and readFileToMap.
ParseData(data, dir) ==
    With(Split(Replace(data, << "\r", "\n" >>, << "\n" >>), << "\n" >>), LAMBDA lines :
    With(SelectSeq(lines, LAMBDA l : Len(l) > 0 /\ MatchLine(l)), LAMBDA valid :
        [ i \in 1..Len(valid) |-> ParseLine(valid[i], dir) ]))

\* readFile
readFile(path, d) ==
    With(Lookup(d, path), LAMBDA f :
        IF ~f.exists \/ ~f.readable
        THEN [err |-> TRUE, sums |-> << >>]
        ELSE [err |-> FALSE, sums |-> ParseData(f.data, Dir(path))])

\* The map a sequence of assignments checksumMap[path] = entry leaves behind.
MapOf(sums) ==
    [ k \in { sums[i].Path : i \in 1..Len(sums) } |->
        LET last == CHOOSE i \in 1..Len(sums) :
                        /\ sums[i].Path = k
                        /\ \A j \in (i + 1)..Len(sums) : sums[j].Path # k
        IN  sums[last] ]

\* readFileToMap
readFileToMap(path, d) ==
    With(Lookup(d, path), LAMBDA f :
        IF ~f.exists \/ ~f.readable
        THEN [err |-> TRUE, map |-> << >>]
        ELSE [err |-> FALSE, map |-> MapOf(ParseData(f.data, Dir(path)))])

\* The path writeFile prints for an entry: relative to the manifest's directory,
\* absolute when it cannot be made relative.
RelPath(dir, p) == With(Rel(dir, p), LAMBDA r : IF r.ok THEN r.path ELSE Abs(p))

RECURSIVE Render(_, _)
Render(sorted, dir) ==
    IF sorted = << >> THEN << >>
    ELSE Head(sorted).Hash \o << " ", "*" >> \o RelPath(dir, Head(sorted).Path) \o << "\n" >>
         \o Render(Tail(sorted), dir)

\* writeFile: the sorted entries and the bytes written to path.
writeFile(sums, path) ==
    With(SortSums(sums), LAMBDA sorted :
        [sorted |-> sorted, bytes |-> Render(sorted, Dir(path))])

\* ------------------------------------------------------------------
\* The world of the model

SrcRel == << "s" >>
SrcAbs == << "/", "w", "/", "s" >>
FileLower == SrcAbs \o << "/", "a" >>
FileUpper == SrcAbs \o << "/", "A" >>
ManRel == << "s", "/", "m", ".", "m", "d", "5" >>
ManAbs == Cwd \o Sep \o ManRel

\* Every regular file the model knows, by absolute path.
FilePaths == { FileLower, FileUpper, ManAbs }
\* The directories, which always exist.
Dirs == { Cwd, SrcAbs }

Md5Suffix == << ".", "m", "d", "5" >>

\* The report lines of a command.
Line(tag, path) == [tag |-> tag, path |-> path]

\* The sequence of the elements of a set of strings, ascending.
RECURSIVE Ascending(_)
Ascending(S) ==
    IF S = {} THEN << >>
    ELSE LET m == CHOOSE x \in S : \A y \in S : y = x \/ StrLess(x, y)
         IN  << m >> \o Ascending(S \ {m})

\* Is the element list pre a proper prefix of the element list full?
UnderDir(pre, full) == Len(pre) < Len(full) /\ SubSeq(full, 1, Len(pre)) = pre

\* The name below the root's elements re of a file with elements fe, if it
\* exists and lies below the root.
Below(re, fe, exists) ==
    IF exists /\ UnderDir(re, fe)
    THEN { JoinWith(SubSeq(fe, Len(re) + 1, Len(fe)), Sep) }
    ELSE {}

\* filepath.Walk(root): the paths handed to the callback for the regular files
\* under root, in lexical order, each the root joined with the names below it.
Walk(root, d) ==
    With(Elems(Abs(root)), LAMBDA re :
    With(Ascending(UNION { Below(re, Elems(f), d[f].exists) : f \in DOMAIN d }), LAMBDA order :
        [ i \in 1..Len(order) |-> Join(root, order[i]) ]))

\* The scan's test for the manifest itself, which is left out of the source paths.
IsOutputFile(path, output) ==
    HasSuffix(path, Base(output)) /\ Abs(path) = Abs(output)

\* What a command leaves behind: the disk, the exit status, the report, the
\* paths handed to the hasher, and for update the scanned paths, the loaded
\* target map, the reconciled map and the entries written.
Outcome(d, exit, out, hashed, src, tgt, merged, written, wrote) ==
    [disk |-> d, exit |-> exit, out |-> out, hashed |-> hashed, src |-> src,
     tgt |-> tgt, merged |-> merged, written |-> written, wrote |-> wrote]

Fatal(d, path, hashed, src, tgt) ==
    Outcome(d, 1, << Line("Error", path) >>, hashed, src, tgt, << >>, << >>, FALSE)

\* The hashing loop with a failure skipped instead of returned.
RECURSIVE HashAllSkipping(_, _, _, _)
HashAllSkipping(paths, d, sums, hashed) ==
    IF paths = << >> THEN [err |-> FALSE, sums |-> sums, hashed |-> hashed, at |-> << >>]
    ELSE With(generateMd5(Head(paths), d), LAMBDA h :
            IF h.err
            THEN HashAllSkipping(Tail(paths), d, sums, Append(hashed, Head(paths)))
            ELSE HashAllSkipping(Tail(paths), d,
                                 Append(sums, [Hash |-> h.hash, Path |-> Head(paths)]),
                                 Append(hashed, Head(paths))))

\* The hashing loop over a sequence of paths: stops at the first failure.
RECURSIVE HashAll(_, _, _, _)
HashAll(paths, d, sums, hashed) ==
    IF paths = << >> THEN [err |-> FALSE, sums |-> sums, hashed |-> hashed, at |-> << >>]
    ELSE With(generateMd5(Head(paths), d), LAMBDA h :
            IF h.err
            THEN [err |-> TRUE, sums |-> sums, hashed |-> Append(hashed, Head(paths)),
                  at |-> Head(paths)]
            ELSE HashAll(Tail(paths), d,
                         Append(sums, [Hash |-> h.hash, Path |-> Head(paths)]),
                         Append(hashed, Head(paths))))

\* newCommand: scan source, hash every file but the output, write the manifest.
newCommand(source, output, scanErr, d) ==
    IF scanErr THEN Fatal(d, source, << >>, {}, << >>)
    ELSE
    With(SelectSeq(Walk(source, d), LAMBDA p : ~IsOutputFile(p, output)), LAMBDA kept :
    With(HashAll(kept, d, << >>, << >>), LAMBDA h :
        IF h.err THEN Fatal(d, h.at, h.hashed, {}, << >>)
        ELSE
        With(writeFile(h.sums, output), LAMBDA w :
            Outcome([d EXCEPT ![Abs(output)] = FileWith(w.bytes)], 0,
                    << Line("Wrote", output) >>, h.hashed, {}, << >>, << >>,
                    w.sorted, TRUE))))

\* The --delete step with the flag not consulted.
RemoveOldAlways(targetMap, sourceKeys, delete) ==
    [ k \in { x \in DOMAIN targetMap : x \in sourceKeys } |-> targetMap[k] ]

\* The --delete step: drop the target entries whose key the scan did not find.
RemoveOld(targetMap, sourceKeys, delete) ==
    IF delete
    THEN [ k \in { x \in DOMAIN targetMap : x \in sourceKeys } |-> targetMap[k] ]
    ELSE targetMap

\* The insert loop without its membership test: every source path is hashed.
NewKeysAll(targetMap, sourceKeys) == sourceKeys

\* The source paths that get a new checksum: those that are no key of the target map.
NewKeys(targetMap, sourceKeys) == { k \in sourceKeys : k \notin DOMAIN targetMap }

\* The insert step, given the hashes of the new keys.
InsertNew(targetMap, sums) ==
    [ k \in DOMAIN targetMap \cup { sums[i].Path : i \in 1..Len(sums) } |->
        IF k \in DOMAIN targetMap THEN targetMap[k]
        ELSE sums[CHOOSE i \in 1..Len(sums) : sums[i].Path = k] ]

\* The permutations of a finite set, as sequences.
Perms(S) ==
    { f \in [1..Cardinality(S) -> S] : \A i, j \in 1..Cardinality(S) : f[i] = f[j] => i = j }

\* The entries of a map in the order a range loop visits its keys.
SliceOf(m, order) == [ i \in 1..Len(order) |-> m[order[i]] ]

\* updateCommand. Go leaves the order of a range loop over a map open, so the
\* command has one outcome per order of the insert loop (which decides the files
\* hashed before a failure) and per order of the loop that fills targetSlice.
updateCommand(source, target, delete, scanErr, d) ==
    IF scanErr THEN { Fatal(d, source, << >>, {}, << >>) }
    ELSE
    With(SelectSeq(Walk(source, d), LAMBDA p : ~IsOutputFile(p, target)), LAMBDA kept :
    With({ kept[i] : i \in 1..Len(kept) }, LAMBDA sourceKeys :
    With(readFileToMap(target, d), LAMBDA loaded :
        IF loaded.err THEN { Fatal(d, target, << >>, sourceKeys, << >>) }
        ELSE
        With(RemoveOld(loaded.map, sourceKeys, delete), LAMBDA pruned :
            UNION { IF h.err
                    THEN { Fatal(d, h.at, h.hashed, sourceKeys, loaded.map) }
                    ELSE With(InsertNew(pruned, h.sums), LAMBDA merged :
                            { Outcome([d EXCEPT ![Abs(target)] =
                                          FileWith(Render(sorted, Dir(target)))],
                                      0, << Line("Updated", target) >>, h.hashed,
                                      sourceKeys, loaded.map, merged, sorted, TRUE)
                              : sorted \in { SortSums(SliceOf(merged, o))
                                             : o \in Perms(DOMAIN merged) } })
                  : h \in { HashAll(o, d, << >>, << >>)
                            : o \in Perms(NewKeys(pruned, sourceKeys)) } }))))

\* The loop of verifyFile over the parsed entries.
RECURSIVE VerifyLoop(_, _, _, _, _)
VerifyLoop(sums, path, d, hasErrors, out) ==
    IF sums = << >> THEN [hasErrors |-> hasErrors, out |-> out]
    ELSE With(Verify(Head(sums), d), LAMBDA v :
            IF ~v.valid
            THEN VerifyLoop(Tail(sums), path, d, TRUE,
                            out \o (IF ~hasErrors THEN << Line("ER", path) >> ELSE << >>)
                                \o << Line(IF v.err THEN "EntryError" ELSE "Invalid",
                                           Head(sums).Path) >>)
            ELSE VerifyLoop(Tail(sums), path, d, hasErrors, out))

\* verifyFile: the report lines for one manifest, and the paths handed to the hasher.
verifyFile(path, d) ==
    With(readFile(path, d), LAMBDA r :
        IF r.err THEN [out |-> << Line("Error", path) >>, hashed |-> << >>]
        ELSE With(VerifyLoop(r.sums, path, d, FALSE, << >>), LAMBDA v :
                [out |-> IF ~v.hasErrors THEN << Line("OK", path) >> ELSE v.out,
                 hashed |-> [ i \in 1..Len(r.sums) |-> r.sums[i].Path ]]))

RECURSIVE VerifyEach(_, _)
VerifyEach(paths, d) ==
    IF paths = << >> THEN [out |-> << >>, hashed |-> << >>]
    ELSE With(verifyFile(Head(paths), d), LAMBDA one :
         With(VerifyEach(Tail(paths), d), LAMBDA rest :
            [out |-> one.out \o rest.out, hashed |-> one.hashed \o rest.hashed]))

\* verifyCommand: the --basic flag is declared by main and read nowhere.
verifyCommand(path, basic, d) ==
    With(Abs(path) \in Dirs, LAMBDA isDir :
        IF ~isDir /\ ~Lookup(d, path).exists THEN Fatal(d, path, << >>, {}, << >>)
        ELSE With(VerifyEach(IF isDir
                             THEN SelectSeq(Walk(path, d), LAMBDA p : HasSuffix(p, Md5Suffix))
                             ELSE << path >>, d), LAMBDA v :
                Outcome(d, 0, v.out, v.hashed, {}, << >>, << >>, << >>, FALSE)))

\* ------------------------------------------------------------------
\* State

VARIABLES
    disk,    \* the regular files: absolute path -> file
    last,    \* the command that has just finished, what it was given and its outcome
    codec    \* one use of the manifest codec on its own: its input and what it produced

vars == << disk, last, codec >>

\* Entries in one manifest: larger source trees are outside the model.
MaxEntries == 2
\* Entries in a checksum set handed to the codec on its own.
MaxSums == 2

ContentX == << "x" >>
ContentY == << "y" >>

\* A manifest as other tools leave it: a comment, CRLF line ends, one relative
\* and one absolute entry, both recording the digest of ContentX.
Legacy ==
    << "#", " ", "x", "\r", "\n" >>
    \o Md5Sum(ContentX) \o << " ", "*", "a", "\r", "\n" >>
    \o Md5Sum(ContentX) \o << " ", "*" >> \o FileUpper \o << "\n" >>

\* What the user can make of each source file: either can be missing, hold
\* ContentX or be locked; the lower-case one can also be rewritten to ContentY.
StatesOf ==
    [ f \in { FileLower, FileUpper } |->
        IF f = FileLower
        THEN { AbsentFile, FileWith(ContentX), FileWith(ContentY), LockedFile }
        ELSE { AbsentFile, FileWith(ContentX), LockedFile } ]
ManifestStates == { AbsentFile, FileWith(Legacy) }

Sources == { SrcRel, SrcAbs }
Targets == { ManRel, ManAbs }
VerifyPaths == { ManRel, SrcRel }

NoOutcome == Outcome(<< >>, 0, << >>, << >>, {}, << >>, << >>, << >>, FALSE)
NoCmd ==
    [cmd |-> "none", source |-> << >>, target |-> << >>, flag |-> FALSE,
     scanErr |-> FALSE, again |-> FALSE, pre |-> << >>, res |-> NoOutcome]

Ran(cmd, source, target, flag, scanErr, again, res) ==
    [cmd |-> cmd, source |-> source, target |-> target, flag |-> flag,
     scanErr |-> scanErr, again |-> again, pre |-> disk,
     res |-> [res EXCEPT !.disk = << >>]]

Idle == last.cmd = "none"

NoCodec ==
    [phase |-> "off", sums |-> << >>, alt |-> << >>, path |-> << >>,
     sorted |-> << >>, bytes |-> << >>, altBytes |-> << >>, back |-> << >>]

Init ==
    /\ \E lower \in StatesOf[FileLower], upper \in StatesOf[FileUpper],
          manifest \in ManifestStates :
            disk = [ f \in FilePaths |->
                        IF f = FileLower THEN lower
                        ELSE IF f = FileUpper THEN upper ELSE manifest ]
    /\ last = NoCmd
    /\ codec = NoCodec

\* The user creates, rewrites, locks or deletes a source file between commands.
EditFile ==
    /\ Idle
    /\ \E f \in { FileLower, FileUpper } :
        \E st \in StatesOf[f] :
            /\ st # disk[f]
            /\ disk' = [disk EXCEPT ![f] = st]
    /\ UNCHANGED << last, codec >>

\* dirsum new source output
DoNew ==
    /\ Idle
    /\ \E source \in Sources, output \in Targets, scanErr \in BOOLEAN :
        \E res \in { newCommand(source, output, scanErr, disk) } :
            /\ Len(res.written) <= MaxEntries
            /\ disk' = res.disk
            /\ last' = Ran("new", source, output, FALSE, scanErr, FALSE, res)
    /\ UNCHANGED codec

\* dirsum update [--delete] source target
DoUpdate ==
    /\ Idle
    /\ \E source \in Sources, target \in Targets, delete \in BOOLEAN, scanErr \in BOOLEAN :
        \E res \in updateCommand(source, target, delete, scanErr, disk) :
            /\ Len(res.written) <= MaxEntries
            /\ disk' = res.disk
            /\ last' = Ran("update", source, target, delete, scanErr, FALSE, res)
    /\ UNCHANGED codec

\* The same update once more, right after it succeeded and with nothing changed
\* in between.
DoUpdateAgain ==
    /\ last.cmd = "update" /\ last.res.exit = 0 /\ ~last.again
    /\ \E res \in updateCommand(last.source, last.target, last.flag, FALSE, disk) :
            /\ Len(res.written) <= MaxEntries
            /\ disk' = res.disk
            /\ last' = Ran("update", last.source, last.target, last.flag, FALSE, TRUE, res)
    /\ UNCHANGED codec

\* dirsum verify [--basic] path
DoVerify ==
    /\ Idle
    /\ \E path \in VerifyPaths, basic \in BOOLEAN :
        \E res \in { verifyCommand(path, basic, disk) } :
            /\ disk' = res.disk
            /\ last' = Ran("verify", << >>, path, basic, FALSE, FALSE, res)
    /\ UNCHANGED codec

\* The process has exited; its report is read and the shell is free again.
Return ==
    /\ ~Idle
    /\ last' = NoCmd
    /\ UNCHANGED << disk, codec >>

Next == EditFile \/ DoNew \/ DoUpdate \/ DoUpdateAgain \/ DoVerify \/ Return

Spec == Init /\ [][Next]_vars

\* ------------------------------------------------------------------
\* The manifest codec on its own: writeFile on a checksum set, readFileToMap
\* on the bytes it wrote.

CodecPaths ==
    { << "s", "/", "a" >>, << "s", "/", "A" >>, FileLower,
      << "s", "/", "a", " ", "*", "b" >> }
CodecHashes == { Md5Sum(ContentX), Md5Sum(ContentY) }
CodecOutputs == { ManRel, ManAbs, << "m", ".", "m", "d", "5" >> }

\* The checksum sets with unique resolved paths, in every order of presentation.
CodecSets ==
    UNION { { q \in [1..n -> [Hash : CodecHashes, Path : CodecPaths]] :
                \A i, j \in 1..n : Abs(q[i].Path) = Abs(q[j].Path) => i = j }
            : n \in 0..MaxSums }

InitCodec ==
    /\ disk = [ f \in FilePaths |-> AbsentFile ]
    /\ last = NoCmd
    /\ \E sums \in CodecSets, path \in CodecOutputs :
        \E order \in Perms(1..Len(sums)) :
            codec = [NoCodec EXCEPT !.phase = "input", !.sums = sums, !.path = path,
                                    !.alt = [ i \in 1..Len(sums) |-> sums[order[i]] ]]

\* writeFile on the set, and on the same set presented in the other order.
CodecWrite ==
    /\ codec.phase = "input"
    /\ \E w \in { writeFile(codec.sums, codec.path) } :
        codec' = [codec EXCEPT !.phase = "written", !.sorted = w.sorted,
                               !.bytes = w.bytes,
                               !.altBytes = writeFile(codec.alt, codec.path).bytes]
    /\ UNCHANGED << disk, last >>

\* readFileToMap on the file just written.
CodecRead ==
    /\ codec.phase = "written"
    /\ LET d == [ f \in { Abs(codec.path) } |-> FileWith(codec.bytes) ]
       IN  codec' = [codec EXCEPT !.phase = "read",
                                  !.back = readFileToMap(codec.path, d).map]
    /\ UNCHANGED << disk, last >>

NextCodec == CodecWrite \/ CodecRead

SpecCodec == InitCodec /\ [][NextCodec]_vars

\* ------------------------------------------------------------------
\* Properties

\* The manifest as verify names it: both verify paths of the model lead to it.
SeenManifest == ManRel

\* The class of an entry, read off the files the command saw.
ClassOf(c, d) ==
    LET f == Lookup(d, c.Path)
    IN  IF ~f.exists \/ ~f.readable THEN "Unreadable"
        ELSE IF Md5Sum(f.data) # c.Hash THEN "Mismatched"
        ELSE "OK"

\* The report a manifest is due: OK alone when every entry is OK, else its
\* name followed by one line per entry that is not OK, in manifest order.
DueReport(path, d) ==
    LET sums == readFile(path, d).sums
        bad == SelectSeq(sums, LAMBDA c : ClassOf(c, d) # "OK")
    IN  IF bad = << >> THEN << Line("OK", path) >>
        ELSE << Line("ER", path) >>
             \o [ i \in 1..Len(bad) |->
                    Line(IF ClassOf(bad[i], d) = "Unreadable" THEN "EntryError" ELSE "Invalid",
                         bad[i].Path) ]

VerifiedManifest ==
    /\ last.cmd = "verify"
    /\ Lookup(last.pre, SeenManifest).exists

\* C1: verifying a manifest classifies every parsed entry, in order and without
\* stopping at the first failure (Unreadable, Mismatched, OK); the manifest is
\* reported OK iff every entry is OK, else with exactly one line per entry that
\* is not OK, named by its path, and with no OK line.
C1_VerifyClassifies ==
    VerifiedManifest => last.res.out = DueReport(SeenManifest, last.pre)

\* A verify that reported an unreadable and a mismatched entry of one manifest.
C1_Witness ==
    /\ VerifiedManifest
    /\ \E i, j \in 1..Len(last.res.out) :
        /\ i < j
        /\ last.res.out[i].tag = "Invalid"
        /\ last.res.out[j].tag = "EntryError"

SomeEntryFails ==
    \E i \in 1..Len(readFile(SeenManifest, last.pre).sums) :
        ClassOf(readFile(SeenManifest, last.pre).sums[i], last.pre) # "OK"

\* C2: verify exits nonzero whenever an entry of a verified manifest is
\* classified Unreadable or Mismatched; exit status zero means all were OK.
C2_VerifyExitStatus ==
    (VerifiedManifest /\ SomeEntryFails) => last.res.exit # 0

UpdateRan == last.cmd = "update"
UpdateDone == last.cmd = "update" /\ last.res.exit = 0

\* The keys the scan and the loaded target map have in common.
KeptKeys == { k \in last.res.src : k \in DOMAIN last.res.tgt }

\* The entries of the manifest as it stands on disk after the command.
ManifestNow == readFile(last.target, disk).sums

\* C3: update never recomputes an existing checksum: a path that is a scanned
\* source path and a key of the loaded target set keeps its recorded hash in the
\* manifest written, with or without --delete and whatever the file holds now;
\* the hasher is invoked only for source paths that are no key of the target set.
C3_UpdateNeverRecomputes ==
    UpdateRan =>
        /\ \A i \in 1..Len(last.res.hashed) :
            /\ last.res.hashed[i] \in last.res.src
            /\ last.res.hashed[i] \notin DOMAIN last.res.tgt
        /\ last.res.exit = 0 =>
            \A k \in KeptKeys :
                /\ \E i \in 1..Len(last.res.written) : last.res.written[i].Path = k
                /\ \A i \in 1..Len(last.res.written) :
                    last.res.written[i].Path = k
                        => last.res.written[i].Hash = last.res.tgt[k].Hash
                /\ \E i \in 1..Len(ManifestNow) :
                    /\ Abs(ManifestNow[i].Path) = Abs(k)
                    /\ ManifestNow[i].Hash = last.res.tgt[k].Hash

\* An update that kept the hash of a file whose content no longer matches it.
C3_Witness ==
    /\ UpdateDone
    /\ \E k \in KeptKeys :
        /\ Lookup(last.pre, k).readable
        /\ Md5Sum(Lookup(last.pre, k).data) # last.res.tgt[k].Hash

\* The source files the scan finds, by absolute path.
ScannedFiles == { f \in { FileLower, FileUpper } : last.pre[f].exists }

\* The resolved paths of the entries of a manifest file.
ResolvedPaths(path, d) ==
    { Abs(readFile(path, d).sums[i].Path) : i \in 1..Len(readFile(path, d).sums) }

\* C4: after update the manifest holds, with --delete, exactly the scanned
\* source paths, and without it the previous target paths together with the
\* source paths; an empty source is no error and leaves the target unchanged
\* without --delete and empty with it.
C4_UpdatePathSet ==
    /\ UpdateDone =>
        /\ { last.res.written[i].Path : i \in 1..Len(last.res.written) }
             = IF last.flag THEN last.res.src ELSE DOMAIN last.res.tgt \cup last.res.src
        /\ ResolvedPaths(last.target, disk)
             = IF last.flag THEN ScannedFiles
               ELSE ResolvedPaths(last.target, last.pre) \cup ScannedFiles
    /\ ( /\ UpdateRan /\ ~last.scanErr /\ Lookup(last.pre, last.target).exists
         /\ ScannedFiles = {} )
        => last.res.exit = 0

\* An update --delete that dropped an entry and kept another.
C4_Witness ==
    /\ UpdateDone /\ last.flag
    /\ \E k \in DOMAIN last.res.tgt : k \notin last.res.src
    /\ KeptKeys # {}

\* C5: update is idempotent: the same update run again at once, with nothing
\* changed in between, writes the manifest the first run wrote, hashes no file
\* and adds no entry.
C5_UpdateIdempotent ==
    (UpdateDone /\ last.again) =>
        /\ disk = last.pre
        /\ last.res.hashed = << >>

\* The resolved path -> hash pairs of a sequence of entries and of a map.
PairsOf(sums) == { << Abs(sums[i].Path), sums[i].Hash >> : i \in 1..Len(sums) }
PairsOfMap(m) == { << Abs(k), m[k].Hash >> : k \in DOMAIN m }

\* C6: round trip of the codec: parsing the bytes writeFile(S, p) produced, with
\* relative paths resolved against the directory of p, yields exactly the
\* resolved path -> hash pairs of S.
C6_RoundTrip ==
    codec.phase = "read" => PairsOfMap(codec.back) = PairsOf(codec.sums)

\* C7: sort determinism: the same set serialized to the same path gives the same
\* bytes for every order of presentation, the entries ascending by lowercase
\* directory and then by lowercase full path.
C7_SortDeterminism ==
    codec.phase \in { "written", "read" } =>
        /\ codec.bytes = codec.altBytes
        /\ \A i, j \in 1..Len(codec.sorted) :
            i < j => ~Less(codec.sorted[j], codec.sorted[i])

\* The failures new and update must not survive.
ScanFailed == last.scanErr
TargetUnreadable == last.cmd = "update" /\ ~Lookup(last.pre, last.target).readable
HashFailed ==
    \/ last.cmd = "new" /\ \E f \in ScannedFiles : ~last.pre[f].readable
    \/ \E i \in 1..Len(last.res.hashed) : ~Lookup(last.pre, last.res.hashed[i]).readable

\* C8: new and update are fail-fast: when the scan reports an error, hashing a
\* scanned file fails or the target manifest cannot be read, the command exits
\* nonzero and writes nothing, so the manifest on disk is as it was.
C8_FailFast ==
    (last.cmd \in { "new", "update" } /\ (ScanFailed \/ TargetUnreadable \/ HashFailed)) =>
        /\ last.res.exit # 0
        /\ ~last.res.wrote
        /\ disk = last.pre

\* A command that met a file it could not hash while a manifest was on disk.
C8_Witness ==
    /\ last.cmd \in { "new", "update" }
    /\ ~ScanFailed /\ HashFailed
    /\ Lookup(last.pre, last.target).exists
    /\ last.res.exit = 1

\* C9: verify --basic is an existence-only check: no file is hashed, and an
\* entry whose file exists is OK whatever its content.
C9_BasicExistenceOnly ==
    (VerifiedManifest /\ last.flag) =>
        /\ \A i \in 1..Len(last.res.hashed) :
            ~Lookup(last.pre, last.res.hashed[i]).readable
        /\ \A i \in 1..Len(last.res.out) :
            last.res.out[i].tag \in { "EntryError", "Invalid" }
                => ~Lookup(last.pre, last.res.out[i].path).exists

\* C10: update keeps at most one entry per resolved (absolute) path, in its
\* reconciliation and in the manifest it writes, whatever mix of relative and
\* absolute forms its arguments come in: no file is listed twice.
C10_OneEntryPerFile ==
    UpdateDone =>
        /\ \A k1, k2 \in DOMAIN last.res.merged : Abs(k1) = Abs(k2) => k1 = k2
        /\ \A i, j \in 1..Len(last.res.written) :
            Abs(last.res.written[i].Path) = Abs(last.res.written[j].Path) => i = j

====
